---------------------------- MODULE Spec2Model ----------------------------
(***************************************************************************)
(* A model of the particle-system renderer (src/renderer.cpp, renderer.h)  *)
(* and of the GUI tick that drives it (src/gui.cpp).                       *)
(*                                                                         *)
(* Numbers.  The program computes in 32-bit floats; the model computes in  *)
(* fixed point.  Lengths, vector components, sines and cosines carry       *)
(* Scale units per 1.0, normalized pointer coordinates carry MouseScale    *)
(* units per 1.0.  Every product is divided back with rounding to nearest, *)
(* so each operation is within one unit (1/Scale) of the real result, the  *)
(* way a float operation is within one ulp of it.  A vector whose          *)
(* components are NaN in the program has nan = TRUE here.                  *)
(*                                                                         *)
(* Angles are never materialised: phi = 2*asin(t) enters the program only  *)
(* through the rotation angleAxis(phi, axis), modelled by cos(phi) =       *)
(* 1 - 2t^2 and sin(phi) = 2t*sqrt(1 - t^2); the tilt acos(c) is compared  *)
(* with a limit through the cosines (acos is decreasing).  angleAxis is    *)
(* read as taking radians, as the comments of Renderer::rotate say.        *)
(***************************************************************************)
EXTENDS Integers, Sequences, FiniteSets, TLC

VARIABLES
    glState,              \* "constructed", "initialized" or "glewFailed"
    hasOpenGL4_0,         \* hasOpenGL4_0 of GUI::createRenderer
    canvasSize,           \* QGLWidget::size()
    oldMousePosition,     \* _oldMousePosition
    limitCameraPosition,  \* _limitCameraPosition
    position,             \* _position
    focus,                \* _focus
    upVector,             \* _upVector
    viewProjectionMatrix, \* _viewProjectionMatrix
    particleData,         \* _particleData: "nullptr" or "vector"
    particleVector,       \* the caller's std::vector<glm::vec3> (main.cpp)
    renderGround,         \* _renderGround
    groundVBO,            \* _groundVBO
    groundTexture,        \* _groundTexture (0 is nullptr)
    groundTextureNormal,  \* _groundTextureNormal
    groundProgram,        \* _groundProgram
    groundProgramReady,   \* _groundProgramReady
    renderSkybox,         \* _renderSkybox
    skyboxVBO,            \* _skyboxVBO
    skyboxIBO,            \* _skyboxIBO
    skyboxTexture,        \* _skyboxTexture
    skyboxProgram,        \* _skyboxProgram
    skyboxProgramReady,   \* _skyboxProgramReady
    particleVBO,          \* _particleVBO
    particleTexture,      \* _particleTexture
    particleProgram,      \* _particleProgram
    particleProgramReady, \* _particleProgramReady
    numberOfParticles,    \* _numberOfParticles
    gl,                   \* the GL objects: names generated, Texture and ProgramObject
                          \* objects alive, buffer and cube map contents
    frame,                \* what the handler that ran last issued to GL as a frame
    running,              \* FALSE once the process has died on a null pointer
    numParticlesLabel,    \* the number shown by _numParticlesLabel (gui.cpp), <<>> if none
    moves                 \* number of mouse move events delivered so far

cameraVars == <<oldMousePosition, limitCameraPosition, position, focus,
                upVector, viewProjectionMatrix>>
groundVars == <<groundVBO, groundTexture, groundTextureNormal, groundProgram,
                groundProgramReady>>
skyboxVars == <<skyboxVBO, skyboxIBO, skyboxTexture, skyboxProgram,
                skyboxProgramReady>>
particleVars == <<particleVBO, particleTexture, particleProgram,
                  particleProgramReady, numberOfParticles>>
vars == <<glState, hasOpenGL4_0, canvasSize, cameraVars, particleData, particleVector,
          renderGround, groundVars, renderSkybox, skyboxVars, particleVars,
          gl, frame, running, numParticlesLabel, moves>>

----------------------------------------------------------------------------
(* Bounds of the model *)

\* mouse move events delivered in one behaviour
MaxMoves == 2

\* largest vector component (in units of 1.0) a zoom may produce
MaxCoord == 20

(* Fixed-point resolutions *)
Scale == 1000
MouseScale == 1000000

----------------------------------------------------------------------------
(* Arithmetic *)

Abs(a) == IF a < 0 THEN -a ELSE a

\* a / b rounded to the nearest integer, b > 0
RDiv(a, b) ==
    LET m == Abs(a)
        q == (m \div b) + (IF 2 * (m % b) >= b THEN 1 ELSE 0)
    IN  IF a >= 0 THEN q ELSE -q

RECURSIVE SqrtIter(_, _)
SqrtIter(n, r) ==
    LET r2 == (r + n \div r) \div 2
    IN  IF r2 >= r THEN r ELSE SqrtIter(n, r2)

\* floor of the square root, by Newton's iteration from a start that is not
\* below it
FloorSqrt(n) ==
    IF n <= 0 THEN 0
    ELSE SqrtIter(n, IF n >= 1000000 THEN n \div 1000 ELSE n)

\* the square root rounded to the nearest integer
Sqrt(n) ==
    LET f == FloorSqrt(n)
    IN  IF n - f * f > f THEN f + 1 ELSE f

Min(a, b) == IF a < b THEN a ELSE b
Max(a, b) == IF a < b THEN b ELSE a

----------------------------------------------------------------------------
(* glm::vec3 *)

Vec3(a, b, c) == [x |-> a, y |-> b, z |-> c, nan |-> FALSE]
NaNVec == [x |-> 0, y |-> 0, z |-> 0, nan |-> TRUE]

\* a * b, both in fixed point
Mul(a, b) == RDiv(a * b, Scale)

Dot(a, b) == RDiv(a.x * b.x + a.y * b.y + a.z * b.z, Scale)

Cross(a, b) ==
    IF a.nan \/ b.nan THEN NaNVec
    ELSE Vec3(RDiv(a.y * b.z - a.z * b.y, Scale),
              RDiv(a.z * b.x - a.x * b.z, Scale),
              RDiv(a.x * b.y - a.y * b.x, Scale))

Length(a) == Sqrt(a.x * a.x + a.y * a.y + a.z * a.z)

\* glm::normalize: v * inversesqrt(dot(v, v)); the zero vector gives NaN.
\* A short vector is first brought to a largest component of about 20 * Scale,
\* so that its length keeps its digits (2 * 10^4 squared, three times, stays
\* below 2^31)
Normalize(a) ==
    IF a.nan \/ (a.x = 0 /\ a.y = 0 /\ a.z = 0) THEN NaNVec
    ELSE LET m == Max(Abs(a.x), Max(Abs(a.y), Abs(a.z)))
             k == IF m >= 20 * Scale THEN 1 ELSE (20 * Scale) \div m
             l == Length(Vec3(k * a.x, k * a.y, k * a.z))
         IN  Vec3(RDiv(k * a.x * Scale, l),
                  RDiv(k * a.y * Scale, l),
                  RDiv(k * a.z * Scale, l))

\* s * v for a fixed-point scalar s
ScaleVec(s, v) ==
    IF v.nan THEN NaNVec ELSE Vec3(Mul(s, v.x), Mul(s, v.y), Mul(s, v.z))

Sub(a, b) ==
    IF a.nan \/ b.nan THEN NaNVec ELSE Vec3(a.x - b.x, a.y - b.y, a.z - b.z)

\* glm::angleAxis(phi, axis) * v, given c = cos(phi) and s = sin(phi):
\* v*c + (axis x v)*s + axis*(axis . v)*(1 - c)
Rotated(v, axis, c, s) ==
    IF v.nan \/ axis.nan THEN NaNVec
    ELSE LET kxv == Cross(axis, v)
             kdv == Dot(axis, v)
             w   == Scale - c
         IN  Vec3(Mul(v.x, c) + Mul(kxv.x, s) + Mul(Mul(axis.x, kdv), w),
                  Mul(v.y, c) + Mul(kxv.y, s) + Mul(Mul(axis.y, kdv), w),
                  Mul(v.z, c) + Mul(kxv.z, s) + Mul(Mul(axis.z, kdv), w))

\* cos(2*asin(t)) and sin(2*asin(t)) for t in [-1, 1]
CosPhi(t) == Scale - RDiv(2 * t * t, Scale)
SinPhi(t) == RDiv(2 * t * Sqrt(Scale * Scale - t * t), Scale)

----------------------------------------------------------------------------
(* Constants of renderer.cpp *)

rotationalFactor == 60
minimumHeight    == Scale \div 10                \* 0.1
minimumDistance  == Scale \div 4                 \* 0.25
skyboxSize       == 5 * Scale
maximumDistance  == skyboxSize - Scale \div 10   \* 4.9
\* cos(_minimumTilt) = cos(0.1) = 0.995004; cos(_maximumTilt) = -cos(0.1)
cosMinimumTilt   == (995 * Scale) \div 1000
cosMaximumTilt   == -cosMinimumTilt

defaultPosition == Vec3(-Scale, 0, Scale)
defaultFocus    == Vec3(0, 0, 0)
defaultUp       == Vec3(0, 0, Scale)

\* the renderer's fixed size (gui.cpp)
rendererSize == [w |-> 800, h |-> 600]

----------------------------------------------------------------------------
(* The cached matrix.  projection * lookAt is a function of the pose and   *)
(* of the canvas size; the matrix is kept as the arguments it was computed *)
(* from, so that two matrices are equal iff they were computed from the    *)
(* same pose and size.  A default-constructed glm::mat4 is the identity.   *)

identityMatrix == [pos |-> NaNVec, focus |-> NaNVec, up |-> NaNVec,
                   size |-> [w |-> 0, h |-> 0]]

lookAtPerspective(pos, foc, up, size) ==
    [pos |-> pos, focus |-> foc, up |-> up, size |-> size]

\* Renderer::updateViewProjectionMatrix, run when the pose is (p, foc, up)
\* and the canvas has the given size
updateViewProjectionMatrix(p, foc, up, size) ==
    viewProjectionMatrix' = lookAtPerspective(p, foc, up, size)

----------------------------------------------------------------------------
(* Pointer input *)

\* Renderer::scaledMouse: (2x/width - 1, 2y/(height - 1)), in MouseScale
scaledMouse(px, py) ==
    [x |-> RDiv(2 * px * MouseScale, canvasSize.w) - MouseScale,
     y |-> RDiv(2 * py * MouseScale, canvasSize.h - 1)]

\* the float t of rotate and zoom, brought from MouseScale to Scale
ToScale(m) == RDiv(m, MouseScale \div Scale)

\* glm::min(t, 1) then glm::max(t, -1)
Clamp1(t) == Max(Min(t, MouseScale), -MouseScale)

\* glm::max(_position.z, _minimumHeight) written back to _position.z
heightClamped(p) ==
    IF p.nan THEN p ELSE [p EXCEPT !.z = Max(p.z, minimumHeight)]

\* dot(normalize(_upVector), normalize(_position)) = cos(currentTilt);
\* NaN when either vector cannot be normalized
cosTilt(up, p) ==
    IF Normalize(up).nan \/ Normalize(p).nan THEN [nan |-> TRUE, v |-> 0]
    ELSE [nan |-> FALSE, v |-> Dot(Normalize(up), Normalize(p))]

\* Renderer::rotate with the two angles exchanged: the horizontal displacement
\* tilts, the vertical one turns about the up vector
rotatedPositionExchanged(p, up, tx, ty, limit) ==
    LET rotated == Rotated(p, up, CosPhi(ty), SinPhi(ty))
        tiltAxis == Normalize(Cross(up, p))
        tilted == Rotated(rotated, tiltAxis, CosPhi(tx), SinPhi(tx))
    IN  IF limit THEN heightClamped(tilted) ELSE tilted

\* Renderer::rotate never clamping the height
rotatedPositionUnclamped(p, up, tx, ty, limit) ==
    LET rotated == Rotated(p, up, CosPhi(tx), SinPhi(tx))
        tiltAxis == Normalize(Cross(up, p))
    IN  Rotated(rotated, tiltAxis, CosPhi(ty), SinPhi(ty))

\* Renderer::rotate clamping the height whatever the limit toggle says
rotatedPositionClamped(p, up, tx, ty, limit) ==
    LET rotated == Rotated(p, up, CosPhi(tx), SinPhi(tx))
        tiltAxis == Normalize(Cross(up, p))
        tilted == Rotated(rotated, tiltAxis, CosPhi(ty), SinPhi(ty))
    IN  heightClamped(tilted)

\* the position Renderer::rotate computes once past its two early returns
rotatedPosition(p, up, tx, ty, limit) ==
    LET rotated == Rotated(p, up, CosPhi(tx), SinPhi(tx))
        tiltAxis == Normalize(Cross(up, p))
        tilted == Rotated(rotated, tiltAxis, CosPhi(ty), SinPhi(ty))
    IN  IF limit THEN heightClamped(tilted) ELSE tilted

\* t of Renderer::rotate after the clamp to [-1, 1], in Scale
rotateT(newMouse) ==
    [x |-> ToScale(Clamp1((oldMousePosition.x - newMouse.x) * rotationalFactor)),
     y |-> ToScale(Clamp1((oldMousePosition.y - newMouse.y) * rotationalFactor))]

\* the pole guard of Renderer::rotate evaluated only while the limit is on
closeToPoleWhenLimited(newMouse) ==
    LET c == cosTilt(upVector, position)
        closeToTop    == ~c.nan /\ c.v > cosMinimumTilt /\ rotateT(newMouse).y < 0
        closeToBottom == ~c.nan /\ c.v < cosMaximumTilt /\ rotateT(newMouse).y > 0
    IN  limitCameraPosition /\ (closeToBottom \/ closeToTop)

\* closeToBottom || closeToTop of Renderer::rotate; phi.y has the sign of t.y
closeToPole(newMouse) ==
    LET c == cosTilt(upVector, position)
        closeToTop    == ~c.nan /\ c.v > cosMinimumTilt /\ rotateT(newMouse).y < 0
        closeToBottom == ~c.nan /\ c.v < cosMaximumTilt /\ rotateT(newMouse).y > 0
    IN  closeToBottom \/ closeToTop

\* Renderer::rotate
rotate(newMouse) ==
    IF newMouse = oldMousePosition
    THEN UNCHANGED <<position, viewProjectionMatrix>>
    ELSE IF closeToPole(newMouse)
         THEN UNCHANGED <<position, viewProjectionMatrix>>
         ELSE /\ position' = rotatedPosition(position, upVector,
                                             rotateT(newMouse).x,
                                             rotateT(newMouse).y,
                                             limitCameraPosition)
              /\ updateViewProjectionMatrix(position', focus, upVector, canvasSize)

\* Renderer::zoom clamping the distance and the height whatever the limit
\* toggle says
zoomedPositionClamped(p, foc, t, limit) ==
    LET positionVector == Sub(p, foc)
        moved == ScaleVec(Scale + t, positionVector)
        far == IF ~moved.nan /\ Length(moved) > maximumDistance
               THEN ScaleVec(maximumDistance, Normalize(positionVector))
               ELSE moved
        near == IF ~far.nan /\ Length(far) < minimumDistance
                THEN ScaleVec(minimumDistance, Normalize(positionVector))
                ELSE far
    IN  heightClamped(near)

\* the position Renderer::zoom computes once past its early return
zoomedPosition(p, foc, t, limit) ==
    LET positionVector == Sub(p, foc)
        moved == ScaleVec(Scale + t, positionVector)
        far == IF ~moved.nan /\ Length(moved) > maximumDistance
               THEN ScaleVec(maximumDistance, Normalize(positionVector))
               ELSE moved
        near == IF ~far.nan /\ Length(far) < minimumDistance
                THEN ScaleVec(minimumDistance, Normalize(positionVector))
                ELSE far
    IN  IF limit THEN heightClamped(near) ELSE moved

\* Renderer::zoom without its return on an unchanged pointer position
zoomUnconditional(newMouse) ==
    /\ position' = zoomedPosition(position, focus,
                                  ToScale(newMouse.y - oldMousePosition.y),
                                  limitCameraPosition)
    /\ updateViewProjectionMatrix(position', focus, upVector, canvasSize)

\* Renderer::zoom
zoom(newMouse) ==
    IF newMouse = oldMousePosition
    THEN UNCHANGED <<position, viewProjectionMatrix>>
    ELSE /\ position' = zoomedPosition(position, focus,
                                       ToScale(newMouse.y - oldMousePosition.y),
                                       limitCameraPosition)
         /\ updateViewProjectionMatrix(position', focus, upVector, canvasSize)


----------------------------------------------------------------------------
(* Resources *)

\* the outcome of ProgramObject::compileShaderObjects / linkProgramObject
ProgramOutcomes == {"linked", "compileFailed", "linkFailed"}

\* the six cube map faces loaded in initializeSkybox
Faces == {"xpos", "xneg", "ypos", "yneg", "zpos", "zneg"}

\* what the environment answers during initializeGL: glewInit, every
\* loadTexture (TRUE: a texture, FALSE: nullptr), every program build
AssetOutcomes ==
    [glew : BOOLEAN, dirt : BOOLEAN, dirtN : BOOLEAN,
     ground : ProgramOutcomes, skybox : ProgramOutcomes,
     faces : SUBSET Faces, particle : BOOLEAN, particles : ProgramOutcomes]

\* every asset is found and every program builds
AllLoaded ==
    [glew |-> TRUE, dirt |-> TRUE, dirtN |-> TRUE, ground |-> "linked",
     skybox |-> "linked", faces |-> Faces, particle |-> TRUE,
     particles |-> "linked"]

\* xxxProgramReady after "if (compileSuccess) xxxProgramReady = linkSuccess"
programReady(outcome, ready) ==
    IF outcome = "compileFailed" THEN ready ELSE outcome = "linked"

\* "if (handle == 0) glGenBuffers(1, &handle)", n names being in use
generated(handle, n) == IF handle = 0 THEN n + 1 ELSE handle
\* the names in use after it
inUse(handle, n) == IF handle = 0 THEN n + 1 ELSE n

\* Renderer::initializeGround, n buffer names being in use
initializeGround(a, n) ==
    /\ groundVBO' = generated(groundVBO, n)
    /\ groundTexture' = IF a.dirt THEN 1 ELSE 0
    /\ groundTextureNormal' = IF a.dirtN THEN 1 ELSE 0
    /\ groundProgram' = 1
    /\ groundProgramReady' = programReady(a.ground, groundProgramReady)

\* Renderer::initializeSkybox giving up its program when the ground's diffuse
\* texture is missing
initializeSkyboxWithGround(a, n) ==
    /\ skyboxVBO' = generated(skyboxVBO, n)
    /\ skyboxIBO' = generated(skyboxIBO, inUse(skyboxVBO, n))
    /\ skyboxProgram' = 1
    /\ skyboxProgramReady' = (a.dirt /\ programReady(a.skybox, skyboxProgramReady))
    /\ skyboxTexture' = gl.textures + 1

\* Renderer::initializeSkybox (with generateSkyboxBuffer)
initializeSkybox(a, n) ==
    /\ skyboxVBO' = generated(skyboxVBO, n)
    /\ skyboxIBO' = generated(skyboxIBO, inUse(skyboxVBO, n))
    /\ skyboxProgram' = 1
    /\ skyboxProgramReady' = programReady(a.skybox, skyboxProgramReady)
    /\ skyboxTexture' = gl.textures + 1

\* Renderer::initializeParticle
initializeParticle(a) ==
    /\ particleTexture' = IF a.particle THEN 1 ELSE 0
    /\ particleProgram' = 1
    /\ particleProgramReady' = programReady(a.particles, particleProgramReady)

\* Renderer::groundIsReady
groundIsReady ==
    /\ groundVBO # 0
    /\ groundProgram # 0
    /\ groundProgramReady
    /\ groundTexture # 0
    /\ groundTextureNormal # 0

\* Renderer::skyboxIsReady
skyboxIsReady ==
    /\ skyboxVBO # 0
    /\ skyboxIBO # 0
    /\ skyboxProgram # 0
    /\ skyboxProgramReady
    /\ skyboxTexture # 0

\* Renderer::particlesAreReady, for a value of _particleVBO
particlesAreReadyWith(vbo) ==
    /\ vbo # 0
    /\ particleProgram # 0
    /\ particleProgramReady

particlesAreReady == particlesAreReadyWith(particleVBO)

----------------------------------------------------------------------------
(* The state after GUI::createRenderer: the Renderer constructed and sized. *)
(* glm's default constructors leave vectors zero and the matrix identity.   *)

\* no frame: the handler that ran last did not draw
noFrame == [calls |-> <<>>, viewProjectionMatrix |-> identityMatrix,
            cameraPosition |-> NaNVec, points |-> 0, nullDeref |-> {}]

\* the Renderer as GUI::createRenderer leaves it, after the driver has
\* answered the version query with supported
created(supported) ==
    /\ glState = "constructed"
    /\ hasOpenGL4_0 = supported
    /\ canvasSize = rendererSize
    /\ oldMousePosition = [x |-> 0, y |-> 0]
    /\ limitCameraPosition = TRUE
    /\ position = Vec3(0, 0, 0)
    /\ focus = Vec3(0, 0, 0)
    /\ upVector = Vec3(0, 0, 0)
    /\ viewProjectionMatrix = identityMatrix
    /\ particleData = "nullptr"
    /\ particleVector = <<>>
    /\ renderGround = TRUE
    /\ groundVBO = 0
    /\ groundTexture = 0
    /\ groundTextureNormal = 0
    /\ groundProgram = 0
    /\ groundProgramReady = FALSE
    /\ renderSkybox = TRUE
    /\ skyboxVBO = 0
    /\ skyboxIBO = 0
    /\ skyboxTexture = 0
    /\ skyboxProgram = 0
    /\ skyboxProgramReady = FALSE
    /\ particleVBO = 0
    /\ particleTexture = 0
    /\ particleProgram = 0
    /\ particleProgramReady = FALSE
    /\ numberOfParticles = 0
    /\ gl = [buffers |-> 0, textures |-> 0, textureObjects |-> 0,
             programObjects |-> 0, cubeMapFaces |-> {},
             particleBuffer |-> <<>>]
    /\ frame = noFrame
    /\ running = TRUE
    /\ numParticlesLabel = <<>>
    /\ moves = 0

\* a driver that supports OpenGL 4.0
Init == created(TRUE)

----------------------------------------------------------------------------
(* Initialization *)

\* the Texture objects initializeGround and initializeParticle are handed by
\* loadTexture
loadedTextures(a) ==
    (IF a.dirt THEN 1 ELSE 0) + (IF a.dirtN THEN 1 ELSE 0)
    + (IF a.particle THEN 1 ELSE 0)

\* the body of Renderer::initializeGL, the environment answering with a.  The
\* pointers to the Texture and ProgramObject objects are overwritten, the
\* objects they pointed to stay alive.
initializeGL(a) ==
    /\ running
    /\ IF ~a.glew
       THEN /\ glState' = "glewFailed"
            /\ UNCHANGED <<cameraVars, groundVars, skyboxVars, particleVars, gl>>
       ELSE /\ glState' = "initialized"
            /\ initializeGround(a, gl.buffers)
            /\ initializeSkybox(a, inUse(groundVBO, gl.buffers))
            /\ initializeParticle(a)
            /\ gl' = [gl EXCEPT
                       !.buffers = inUse(skyboxIBO,
                                     inUse(skyboxVBO, inUse(groundVBO, gl.buffers))),
                       !.textures = gl.textures + 1,
                       !.textureObjects = gl.textureObjects + loadedTextures(a),
                       !.programObjects = gl.programObjects + 3,
                       \* the faces are uploaded only if all six loaded
                       !.cubeMapFaces = IF a.faces = Faces THEN Faces ELSE {}]
            /\ position' = defaultPosition
            /\ focus' = defaultFocus
            /\ upVector' = defaultUp
            /\ updateViewProjectionMatrix(position', focus', upVector', canvasSize)
            /\ UNCHANGED <<oldMousePosition, limitCameraPosition, particleVBO,
                           numberOfParticles>>
    /\ frame' = noFrame
    /\ UNCHANGED <<hasOpenGL4_0, canvasSize, particleData, particleVector,
                   renderGround, renderSkybox, running, moves,
                   numParticlesLabel>>

\* Renderer::initializeGL, which Qt calls once before the first paintGL or
\* resizeGL
InitializeGL(a) ==
    /\ glState = "constructed"
    /\ initializeGL(a)

\* initializeGL calls of one behaviour
MaxInitializations == 2

\* Renderer::initializeGL run again on an initialized renderer (each run
\* creates three ProgramObjects)
ReinitializeGL(a) ==
    /\ glState = "initialized"
    /\ gl.programObjects < 3 * MaxInitializations
    /\ initializeGL(a)

\* Renderer::resizeGL without the recomputation of the matrix
ResizeGLStale(w, h) ==
    /\ running
    /\ glState # "constructed"
    /\ canvasSize' = [w |-> w, h |-> h]
    /\ frame' = noFrame
    /\ UNCHANGED <<glState, hasOpenGL4_0, cameraVars, particleData, particleVector,
                   renderGround, groundVars, renderSkybox, skyboxVars,
                   particleVars, gl, running, moves, numParticlesLabel>>

\* Renderer::resizeGL: Qt has resized the canvas to (w, h)
ResizeGL(w, h) ==
    /\ running
    /\ glState # "constructed"
    /\ canvasSize' = [w |-> w, h |-> h]
    /\ updateViewProjectionMatrix(position, focus, upVector, canvasSize')
    /\ frame' = noFrame
    /\ UNCHANGED <<glState, hasOpenGL4_0, oldMousePosition, limitCameraPosition, position,
                   focus, upVector, particleData, particleVector, renderGround,
                   groundVars, renderSkybox, skyboxVars, particleVars, gl, running,
                   moves,
                   numParticlesLabel>>


----------------------------------------------------------------------------
(* Drawing *)

Calls(enabled, name) == IF enabled THEN <<name>> ELSE <<>>

\* paintGL with the particles drawn ahead of the skybox
paintCallsParticlesEarly(vbo) ==
    <<"glClear">>
    \o Calls(renderGround /\ groundIsReady, "drawGround")
    \o Calls(particlesAreReadyWith(vbo), "drawParticles")
    \o Calls(renderSkybox /\ skyboxIsReady, "drawSkybox")

\* paintGL drawing the ground whenever it is ready, whatever its toggle
paintCallsUntoggled(vbo) ==
    <<"glClear">>
    \o Calls(groundIsReady, "drawGround")
    \o Calls(renderSkybox /\ skyboxIsReady, "drawSkybox")
    \o Calls(particlesAreReadyWith(vbo), "drawParticles")

\* the GL-level calls of Renderer::paintGL, in the order it issues them, when
\* _particleVBO is vbo
paintCalls(vbo) ==
    <<"glClear">>
    \o Calls(renderGround /\ groundIsReady, "drawGround")
    \o Calls(renderSkybox /\ skyboxIsReady, "drawSkybox")
    \o Calls(particlesAreReadyWith(vbo), "drawParticles")

Issued(calls, name) == \E i \in 1..Len(calls) : calls[i] = name

\* the null pointers the issued draw functions call a method on
\* (drawGround, drawSkybox, drawParticles)
nullDereferences(calls) ==
    {n \in {"_groundProgram", "_groundTexture", "_groundTextureNormal"} :
        /\ Issued(calls, "drawGround")
        /\ \/ n = "_groundProgram" /\ groundProgram = 0
           \/ n = "_groundTexture" /\ groundTexture = 0
           \/ n = "_groundTextureNormal" /\ groundTextureNormal = 0}
    \cup {n \in {"_skyboxProgram"} :
        Issued(calls, "drawSkybox") /\ skyboxProgram = 0}
    \cup {n \in {"_particleProgram", "_particleTexture"} :
        /\ Issued(calls, "drawParticles")
        /\ \/ n = "_particleProgram" /\ particleProgram = 0
           \/ n = "_particleTexture" /\ particleTexture = 0}

\* what Renderer::paintGL issues when _particleVBO is vbo and
\* _numberOfParticles is n: the calls, the uniforms the draws upload, the
\* count of glDrawArrays(GL_POINTS, 0, n)
painted(vbo, n) ==
    [calls |-> paintCalls(vbo),
     viewProjectionMatrix |-> viewProjectionMatrix,
     cameraPosition |-> position,
     points |-> IF Issued(paintCalls(vbo), "drawParticles") THEN n ELSE 0,
     nullDeref |-> nullDereferences(paintCalls(vbo))]

\* calling a method on a null pointer is undefined: the process dies or
\* goes on
survives(f) == IF f.nullDeref = {} THEN {TRUE} ELSE BOOLEAN

\* Renderer::paintGL
PaintGL ==
    /\ running
    /\ glState # "constructed"
    /\ frame' = painted(particleVBO, numberOfParticles)
    /\ running' \in survives(frame')
    /\ UNCHANGED <<glState, hasOpenGL4_0, canvasSize, cameraVars, particleData,
                   particleVector, renderGround, groundVars, renderSkybox,
                   skyboxVars, particleVars, gl, moves,
                   numParticlesLabel>>

----------------------------------------------------------------------------
(* Particle data *)

\* a particle position (a glm::vec3), abstracted to a label
ParticleValues == {1, 2}

\* longest particle vector of the model
MaxParticles == 1

Vectors == UNION {[1..n -> ParticleValues] : n \in 0..MaxParticles}

\* the vectors whose particles all sit at one place: one of each length
Heaps == {v \in Vectors : \A i \in DOMAIN v : v[i] = 1}

\* Renderer::setData taking over the length of the new source at once
SetDataCounting(p) ==
    /\ running
    /\ particleData' = p
    /\ numberOfParticles' = IF p = "nullptr" THEN 0 ELSE Len(particleVector)
    /\ frame' = noFrame
    /\ UNCHANGED <<glState, hasOpenGL4_0, canvasSize, cameraVars,
                   particleVector, renderGround, groundVars, renderSkybox,
                   skyboxVars, particleVBO, particleTexture, particleProgram,
                   particleProgramReady, gl, running, moves,
                   numParticlesLabel>>

\* Renderer::setData
SetData(p) ==
    /\ running
    /\ particleData' = p
    /\ frame' = noFrame
    /\ UNCHANGED <<glState, hasOpenGL4_0, canvasSize, cameraVars, particleVector,
                   renderGround, groundVars, renderSkybox, skyboxVars,
                   particleVars, gl, running, moves,
                   numParticlesLabel>>

\* the caller changes its vector (the simulation, outside a tick)
MutateSource(v) ==
    /\ running
    /\ particleVector' = v
    /\ frame' = noFrame
    /\ UNCHANGED <<glState, hasOpenGL4_0, canvasSize, cameraVars, particleData,
                   renderGround, groundVars, renderSkybox, skyboxVars,
                   particleVars, gl, running, moves,
                   numParticlesLabel>>

\* Renderer::updateData creating the buffer object before it looks at the data
updatedDataEagerBuffer(v) ==
    IF particleData = "nullptr" \/ Len(v) = 0
    THEN [numberOfParticles |-> 0,
          particleVBO |-> generated(particleVBO, gl.buffers),
          gl |-> [gl EXCEPT !.buffers = inUse(particleVBO, gl.buffers)]]
    ELSE [numberOfParticles |-> Len(v),
          particleVBO |-> generated(particleVBO, gl.buffers),
          gl |-> [gl EXCEPT !.buffers = inUse(particleVBO, gl.buffers),
                            !.particleBuffer = v]]

\* Renderer::updateData generating a buffer object at every upload
updatedDataRegenerating(v) ==
    IF particleData = "nullptr" \/ Len(v) = 0
    THEN [numberOfParticles |-> 0, particleVBO |-> particleVBO, gl |-> gl]
    ELSE [numberOfParticles |-> Len(v),
          particleVBO |-> gl.buffers + 1,
          gl |-> [gl EXCEPT !.buffers = gl.buffers + 1,
                            !.particleBuffer = v]]

\* Renderer::updateData when the caller's vector holds v: the new
\* _numberOfParticles, _particleVBO and GL objects
updatedData(v) ==
    IF particleData = "nullptr" \/ Len(v) = 0
    THEN [numberOfParticles |-> 0, particleVBO |-> particleVBO, gl |-> gl]
    ELSE [numberOfParticles |-> Len(v),
          particleVBO |-> generated(particleVBO, gl.buffers),
          gl |-> [gl EXCEPT !.buffers = inUse(particleVBO, gl.buffers),
                            !.particleBuffer = v]]

\* glGenBuffers and glBufferData are pointers that glewInit fills in: after
\* a failed glewInit, updateData calls through a null pointer when it has
\* particles to upload
callsUnloadedGL(v) ==
    glState = "glewFailed" /\ particleData = "vector" /\ Len(v) > 0

\* Renderer::updateData
UpdateData ==
    /\ running
    /\ glState # "constructed"
    /\ running' \in IF callsUnloadedGL(particleVector) THEN BOOLEAN ELSE {TRUE}
    /\ numberOfParticles' = updatedData(particleVector).numberOfParticles
    /\ particleVBO' = updatedData(particleVector).particleVBO
    /\ gl' = updatedData(particleVector).gl
    /\ frame' = noFrame
    /\ UNCHANGED <<glState, hasOpenGL4_0, canvasSize, cameraVars, particleData,
                   particleVector, renderGround, groundVars, renderSkybox,
                   skyboxVars, particleTexture, particleProgram,
                   particleProgramReady, moves, numParticlesLabel>>

\* GUI::handleUpdate redrawing before the particle data is resynchronized
HandleUpdateRedrawFirst(v) ==
    /\ running
    /\ glState # "constructed"
    /\ particleVector' = v
    /\ numberOfParticles' = updatedData(v).numberOfParticles
    /\ particleVBO' = updatedData(v).particleVBO
    /\ gl' = updatedData(v).gl
    /\ numParticlesLabel' = <<numberOfParticles'>>
    /\ frame' = painted(particleVBO, numberOfParticles)
    /\ running' \in survives(frame')
    /\ UNCHANGED <<glState, hasOpenGL4_0, canvasSize, cameraVars, particleData,
                   renderGround, groundVars, renderSkybox, skyboxVars,
                   particleTexture, particleProgram, particleProgramReady,
                   moves>>

\* GUI::handleUpdate: the timer tick.  The update callback leaves v in the
\* caller's vector; then updateData, the label's text, updateGL (paintGL).
HandleUpdate(v) ==
    /\ running
    /\ glState # "constructed"
    /\ particleVector' = v
    /\ numberOfParticles' = updatedData(v).numberOfParticles
    /\ particleVBO' = updatedData(v).particleVBO
    /\ gl' = updatedData(v).gl
    /\ numParticlesLabel' = <<numberOfParticles'>>
    /\ frame' = painted(particleVBO', numberOfParticles')
    /\ running' \in IF callsUnloadedGL(v) THEN BOOLEAN ELSE survives(frame')
    /\ UNCHANGED <<glState, hasOpenGL4_0, canvasSize, cameraVars, particleData,
                   renderGround, groundVars, renderSkybox, skyboxVars,
                   particleTexture, particleProgram, particleProgramReady,
                   moves>>

----------------------------------------------------------------------------
(* Toggles *)

\* Renderer::showGroundRendering
ShowGroundRendering(b) ==
    /\ running
    /\ glState # "constructed"
    /\ renderGround' = b
    /\ frame' = noFrame
    /\ UNCHANGED <<glState, hasOpenGL4_0, canvasSize, cameraVars, particleData,
                   particleVector, groundVars, renderSkybox, skyboxVars,
                   particleVars, gl, running, moves,
                   numParticlesLabel>>

\* Renderer::showSkyboxRendering
ShowSkyboxRendering(b) ==
    /\ running
    /\ glState # "constructed"
    /\ renderSkybox' = b
    /\ frame' = noFrame
    /\ UNCHANGED <<glState, hasOpenGL4_0, canvasSize, cameraVars, particleData,
                   particleVector, renderGround, groundVars, skyboxVars,
                   particleVars, gl, running, moves,
                   numParticlesLabel>>

\* Renderer::limitCameraPosition applying the height clamp at once when the
\* limit is switched on
LimitCameraPositionClamping(b) ==
    /\ running
    /\ glState # "constructed"
    /\ limitCameraPosition' = b
    /\ position' = IF b THEN heightClamped(position) ELSE position
    /\ updateViewProjectionMatrix(position', focus, upVector, canvasSize)
    /\ frame' = noFrame
    /\ UNCHANGED <<glState, hasOpenGL4_0, canvasSize, oldMousePosition, focus,
                   upVector, particleData, particleVector, renderGround,
                   groundVars, renderSkybox, skyboxVars, particleVars, gl,
                   running, moves, numParticlesLabel>>

\* Renderer::limitCameraPosition
LimitCameraPosition(b) ==
    /\ running
    /\ glState # "constructed"
    /\ limitCameraPosition' = b
    /\ frame' = noFrame
    /\ UNCHANGED <<glState, hasOpenGL4_0, canvasSize, oldMousePosition, position, focus,
                   upVector, viewProjectionMatrix, particleData,
                   particleVector, renderGround, groundVars, renderSkybox,
                   skyboxVars, particleVars, gl, running, moves,
                   numParticlesLabel>>

----------------------------------------------------------------------------
(* Mouse events *)

\* QMouseEvent::buttons()
Buttons == {"NoButton", "LeftButton", "RightButton", "LeftButton|RightButton"}

\* Renderer::mousePressEvent at pixel (px, py)
MousePressEvent(px, py) ==
    /\ running
    /\ glState # "constructed"
    /\ oldMousePosition' = scaledMouse(px, py)
    /\ frame' = noFrame
    /\ UNCHANGED <<glState, hasOpenGL4_0, canvasSize, limitCameraPosition, position, focus,
                   upVector, viewProjectionMatrix, particleData,
                   particleVector, renderGround, groundVars, renderSkybox,
                   skyboxVars, particleVars, gl, running, moves,
                   numParticlesLabel>>

\* the model follows the camera up to MaxCoord from the origin
InRange(p) ==
    p.nan \/ (/\ Abs(p.x) <= MaxCoord * Scale
              /\ Abs(p.y) <= MaxCoord * Scale
              /\ Abs(p.z) <= MaxCoord * Scale)

\* Renderer::mouseMoveEvent testing whether the left (the right) button is
\* among the buttons held
MouseMoveEventAmongButtons(px, py, buttons) ==
    /\ running
    /\ glState # "constructed"
    /\ moves < MaxMoves
    /\ moves' = moves + 1
    /\ oldMousePosition' = scaledMouse(px, py)
    /\ IF buttons \in {"LeftButton", "LeftButton|RightButton"}
       THEN rotate(scaledMouse(px, py))
       ELSE IF buttons = "RightButton" THEN zoom(scaledMouse(px, py))
       ELSE UNCHANGED <<position, viewProjectionMatrix>>
    /\ InRange(position')
    /\ frame' = noFrame
    /\ UNCHANGED <<glState, hasOpenGL4_0, canvasSize, limitCameraPosition,
                   focus, upVector, particleData, particleVector,
                   renderGround, groundVars, renderSkybox, skyboxVars,
                   particleVars, gl, running, numParticlesLabel>>

\* Renderer::mouseMoveEvent at pixel (px, py) with the buttons held (rotate
\* and zoom read the unprimed _oldMousePosition, the one before the event)
MouseMoveEvent(px, py, buttons) ==
    /\ running
    /\ glState # "constructed"
    /\ moves < MaxMoves
    /\ moves' = moves + 1
    /\ oldMousePosition' = scaledMouse(px, py)
    /\ IF buttons = "LeftButton" THEN rotate(scaledMouse(px, py))
       ELSE IF buttons = "RightButton" THEN zoom(scaledMouse(px, py))
       ELSE UNCHANGED <<position, viewProjectionMatrix>>
    /\ InRange(position')
    /\ frame' = noFrame
    /\ UNCHANGED <<glState, hasOpenGL4_0, canvasSize, limitCameraPosition, focus, upVector,
                   particleData, particleVector, renderGround, groundVars,
                   renderSkybox, skyboxVars, particleVars, gl,
                   running, numParticlesLabel>>


----------------------------------------------------------------------------
(* Specifications *)

\* the pixels of the canvas at which the model delivers mouse events: between
\* them lie a half-turn yaw (40 px across), a small yaw and a small tilt
\* (2 px), both at once, and zooms by t = -2*300/599 and t = -2*360/599
Pixels == {<<400, 0>>, <<440, 0>>, <<400, 300>>, <<400, 302>>, <<402, 302>>,
           <<400, 360>>}

\* The camera: the pointer and the limit toggle on an initialized renderer
\* (or on one whose glewInit failed)
NextCamera ==
    \/ \E a \in {AllLoaded, [AllLoaded EXCEPT !.glew = FALSE]} : InitializeGL(a)
    \/ \E px \in Pixels : MousePressEvent(px[1], px[2])
    \/ \E px \in Pixels, b \in Buttons : MouseMoveEvent(px[1], px[2], b)
    \/ \E b \in BOOLEAN : LimitCameraPosition(b)

SpecCamera == Init /\ [][NextCamera]_vars

\* Orbit drags alone, from the default pose, the limit staying enabled
NextOrbit ==
    \/ InitializeGL(AllLoaded)
    \/ \E px \in Pixels : MousePressEvent(px[1], px[2])
    \/ \E px \in Pixels : MouseMoveEvent(px[1], px[2], "LeftButton")

SpecOrbit == Init /\ [][NextOrbit]_vars

\* Resources and drawing: every outcome of the asset loads, the toggles,
\* the particle data and the repaints
NextRender ==
    \/ glState = "constructed" /\ \E a \in AssetOutcomes : InitializeGL(a)
    \/ \E b \in BOOLEAN : ShowGroundRendering(b)
    \/ \E b \in BOOLEAN : ShowSkyboxRendering(b)
    \/ \E b \in BOOLEAN : LimitCameraPosition(b)
    \/ \E p \in {"nullptr", "vector"} : SetData(p)
    \/ \E v \in Heaps : MutateSource(v)
    \/ UpdateData
    \/ PaintGL
    \/ \E v \in Heaps : HandleUpdate(v)

SpecRender == Init /\ [][NextRender]_vars

\* The camera in use on a canvas that is resized and repainted, with the
\* toggles and updateData (glewInit may have failed, which leaves the camera
\* as constructed)
CanvasSizes == {rendererSize, [w |-> 400, h |-> 600]}
FewPixels == {<<400, 300>>, <<402, 302>>}

Next ==
    \/ glState = "constructed"
       /\ \E a \in {AllLoaded, [AllLoaded EXCEPT !.glew = FALSE]} : InitializeGL(a)
    \/ \E s \in CanvasSizes : ResizeGL(s.w, s.h)
    \/ \E px \in FewPixels : MousePressEvent(px[1], px[2])
    \/ \E px \in FewPixels, b \in Buttons : MouseMoveEvent(px[1], px[2], b)
    \/ \E b \in BOOLEAN : ShowGroundRendering(b)
    \/ \E b \in BOOLEAN : ShowSkyboxRendering(b)
    \/ \E b \in BOOLEAN : LimitCameraPosition(b)
    \/ UpdateData
    \/ PaintGL

Spec == Init /\ [][Next]_vars

\* The timer tick of the GUI with every asset loaded: the particle data is
\* set and changed by its owner, the pointer orbits the camera, and the canvas
\* is repainted by the tick or by the window system
NextTick ==
    \/ glState = "constructed" /\ InitializeGL(AllLoaded)
    \/ \E p \in {"nullptr", "vector"} : SetData(p)
    \/ \E v \in Vectors : MutateSource(v)
    \/ UpdateData
    \/ \E px \in FewPixels : MousePressEvent(px[1], px[2])
    \/ \E px \in FewPixels : MouseMoveEvent(px[1], px[2], "LeftButton")
    \/ PaintGL
    \/ \E v \in Vectors : HandleUpdate(v)

SpecTick == Init /\ [][NextTick]_vars

\* Drags: the left or the right button is held in every mouse move, the
\* limit is toggled in between
DragButtons == {"LeftButton", "RightButton"}

NextDrag ==
    \/ glState = "constructed" /\ InitializeGL(AllLoaded)
    \/ \E px \in Pixels : MousePressEvent(px[1], px[2])
    \/ \E px \in Pixels, b \in DragButtons : MouseMoveEvent(px[1], px[2], b)
    \/ \E b \in BOOLEAN : LimitCameraPosition(b)

SpecDrag == Init /\ [][NextDrag]_vars

\* Initialization and the particle data, for the asset outcomes in which at
\* most one cube map face is missing
SomeAssetOutcomes ==
    [glew : BOOLEAN, dirt : BOOLEAN, dirtN : BOOLEAN,
     ground : ProgramOutcomes, skybox : ProgramOutcomes,
     faces : {Faces, Faces \ {"xpos"}}, particle : BOOLEAN,
     particles : ProgramOutcomes]

NextAssets ==
    \/ glState = "constructed" /\ \E a \in SomeAssetOutcomes : InitializeGL(a)
    \/ \E p \in {"nullptr", "vector"} : SetData(p)
    \/ \E v \in Heaps : MutateSource(v)
    \/ UpdateData
    \/ PaintGL
    \/ \E v \in Heaps : HandleUpdate(v)

SpecAssets == Init /\ [][NextAssets]_vars

\* Startup: the driver may lack OpenGL 4.0, glewInit may fail, any texture or
\* program of a subsystem may; then the particle data, the toggles and the
\* repaints
InitStartup == \E supported \in BOOLEAN : created(supported)

NextStartup ==
    \/ glState = "constructed" /\ \E a \in SomeAssetOutcomes : InitializeGL(a)
    \/ \E b \in BOOLEAN : ShowGroundRendering(b)
    \/ \E b \in BOOLEAN : ShowSkyboxRendering(b)
    \/ \E p \in {"nullptr", "vector"} : SetData(p)
    \/ \E v \in Heaps : MutateSource(v)
    \/ UpdateData
    \/ PaintGL
    \/ \E v \in Heaps : HandleUpdate(v)

SpecStartup == InitStartup /\ [][NextStartup]_vars

\* Initialization run more than once, with the toggles and the repaints
NextReinit ==
    \/ glState = "constructed" /\ \E a \in SomeAssetOutcomes : InitializeGL(a)
    \/ glState = "initialized" /\ \E a \in SomeAssetOutcomes : ReinitializeGL(a)
    \/ \E b \in BOOLEAN : ShowGroundRendering(b)
    \/ \E b \in BOOLEAN : ShowSkyboxRendering(b)
    \/ PaintGL

SpecReinit == Init /\ [][NextReinit]_vars

----------------------------------------------------------------------------
(* Properties of the camera *)

\* rounding allowance of the fixed point lengths (0.005) and cosines (0.002)
slack == Scale \div 200
cosSlack == Scale \div 500

\* |position - focus|
distance(p, foc) == Length(Sub(p, foc))

\* C1: with the limit enabled, after every orbit drag from the default pose
\* the tilt between the up vector and the position is within
\* [minTilt, maxTilt], i.e. its cosine within [cos(maxTilt), cos(minTilt)]
TiltWithinLimits ==
    (glState = "initialized" /\ limitCameraPosition)
        => LET c == cosTilt(upVector, position)
           IN  /\ ~c.nan
               /\ c.v <= cosMinimumTilt + cosSlack
               /\ c.v >= cosMaximumTilt - cosSlack

\* C2: with the limit enabled, every zoom drag (a right-button move to a
\* changed pointer position) leaves the position at a distance within
\* [minDistance, maxDistance] of the focus and at a height >= minHeight
ZoomWithinLimits ==
    [][\A px \in Pixels :
         (/\ glState = "initialized"
          /\ limitCameraPosition
          /\ scaledMouse(px[1], px[2]) # oldMousePosition
          /\ MouseMoveEvent(px[1], px[2], "RightButton"))
         => /\ ~position'.nan
            /\ distance(position', focus') >= minimumDistance - slack
            /\ distance(position', focus') <= maximumDistance + slack
            /\ position'.z >= minimumHeight]_vars

\* C3: after initialization no sequence of orbit drags, zoom drags and limit
\* toggles puts the position on the focus
PositionOffFocus ==
    glState = "initialized" => position # focus

----------------------------------------------------------------------------
(* Properties of the resources and of the drawing *)

\* C4: each readiness predicate is true iff the subsystem's buffers are
\* generated, its program exists and linked, and (ground, particles) each of
\* its textures loaded
ReadyIffAllValid ==
    /\ groundIsReady <=> (/\ groundVBO # 0
                          /\ groundProgram # 0 /\ groundProgramReady
                          /\ groundTexture # 0 /\ groundTextureNormal # 0)
    /\ skyboxIsReady <=> (/\ skyboxVBO # 0 /\ skyboxIBO # 0
                          /\ skyboxProgram # 0 /\ skyboxProgramReady
                          /\ skyboxTexture # 0)
    /\ particlesAreReady <=> (/\ particleVBO # 0
                              /\ particleProgram # 0 /\ particleProgramReady
                              /\ particleTexture # 0)

\* C5: no frame calls a method on a null texture or program pointer
NoNullDereference == frame.nullDeref = {}

\* what initializeGL left behind when an asset of the subsystem failed
groundAssetFailed ==
    groundTexture = 0 \/ groundTextureNormal = 0 \/ ~groundProgramReady
skyboxAssetFailed == gl.cubeMapFaces # Faces \/ ~skyboxProgramReady
particleAssetFailed == particleTexture = 0 \/ ~particleProgramReady

\* C6: a subsystem one of whose textures or shaders failed in initializeGL is
\* not ready, and no frame draws it
FailedSubsystemSkipped ==
    glState = "initialized" =>
        /\ groundAssetFailed
             => ~groundIsReady /\ ~Issued(frame.calls, "drawGround")
        /\ skyboxAssetFailed
             => ~skyboxIsReady /\ ~Issued(frame.calls, "drawSkybox")
        /\ particleAssetFailed
             => ~particlesAreReady /\ ~Issued(frame.calls, "drawParticles")

\* the place of a call in the order clear, ground, skybox, particles
drawRank(name) ==
    CASE name = "glClear" -> 0
      [] name = "drawGround" -> 1
      [] name = "drawSkybox" -> 2
      [] name = "drawParticles" -> 3

\* C7: in every frame the clear comes first and the draws issued follow in
\* the order ground, skybox, particles
DrawOrder ==
    frame.calls # <<>> =>
        /\ frame.calls[1] = "glClear"
        /\ \A i, j \in 1..Len(frame.calls) :
             i < j => drawRank(frame.calls[i]) < drawRank(frame.calls[j])

\* a frame in which all three subsystems are drawn
AllThreeDrawn ==
    frame.calls = <<"glClear", "drawGround", "drawSkybox", "drawParticles">>

\* C8: in every frame the ground is drawn iff its toggle is on and it is
\* ready, the skybox iff its toggle is on and it is ready, the particles iff
\* they are ready
DrawnIffEnabledAndReady ==
    frame.calls # <<>> =>
        /\ Issued(frame.calls, "drawGround") <=> (renderGround /\ groundIsReady)
        /\ Issued(frame.calls, "drawSkybox") <=> (renderSkybox /\ skyboxIsReady)
        /\ Issued(frame.calls, "drawParticles") <=> particlesAreReady

\* a frame without the ground, which is ready and toggled off, the camera
\* limit being off as well; the skybox and the particles are drawn
ToggledOffGroundSkipped ==
    /\ frame.calls = <<"glClear", "drawSkybox", "drawParticles">>
    /\ groundIsReady /\ ~renderGround
    /\ ~limitCameraPosition

----------------------------------------------------------------------------
(* Properties of the tick and of the cached matrix *)

\* C9: in a tick the callback's vector is what updateData uploads and counts,
\* and the redraw draws that count; every frame is drawn with the position
\* and the matrix of the pose all earlier mouse moves have left
TickInOrder ==
    [][/\ \A v \in Vectors :
            (HandleUpdate(v) /\ particleData = "vector")
            => /\ numberOfParticles' = Len(v)
               /\ Len(v) > 0 => gl'.particleBuffer = v
               /\ frame'.calls # <<>>
               /\ frame'.points = numberOfParticles'
       /\ frame'.calls # <<>>
            => /\ frame'.cameraPosition = position'
               /\ frame'.viewProjectionMatrix
                    = lookAtPerspective(position', focus', upVector', canvasSize')
      ]_vars

\* a tick has uploaded and drawn the one particle of the callback's vector,
\* seen from a position a drag has moved the camera to
TickDrewAfterDrag ==
    /\ numParticlesLabel = <<1>>
    /\ gl.particleBuffer = particleVector
    /\ frame.points = 1
    /\ position # defaultPosition
    /\ frame.cameraPosition = position

\* C10: after initialization the cached matrix is the one computed from the
\* current position, focus, up vector and canvas size
MatrixCurrent ==
    glState = "initialized" =>
        viewProjectionMatrix
            = lookAtPerspective(position, focus, upVector, canvasSize)

\* the camera has been dragged away from the default pose on a resized canvas
DraggedOnResizedCanvas ==
    /\ glState = "initialized"
    /\ position # defaultPosition
    /\ canvasSize # rendererSize
    /\ viewProjectionMatrix
         = lookAtPerspective(position, focus, upVector, canvasSize)

----------------------------------------------------------------------------
(* Properties of the particle data *)

\* C11: updateData on a null source pointer or an empty source sets the
\* count to 0 and leaves the GL objects and _particleVBO as they were
EmptySourceNoGPU ==
    [][(UpdateData /\ (particleData = "nullptr" \/ particleVector = <<>>))
         => /\ numberOfParticles' = 0
            /\ gl' = gl
            /\ particleVBO' = particleVBO]_vars

\* updateData has met an empty or absent source after an earlier upload: the
\* count is 0, the buffer object and its old contents are still there
EmptyResyncAfterUpload ==
    /\ particleData = "nullptr" \/ particleVector = <<>>
    /\ numberOfParticles = 0
    /\ particleVBO # 0
    /\ gl.particleBuffer # <<>>

\* the source as updateData sees it when the caller's vector holds v
seenSource(v) == IF particleData = "nullptr" THEN <<>> ELSE v

\* a step that runs updateData: the call itself or the timer tick
runsUpdateData == UpdateData \/ \E v \in Vectors : HandleUpdate(v)

mirrored(buffer, n) == SubSeq(buffer, 1, n)

EmptySourceNotDrawn ==
    (frame.calls # <<>> /\ numberOfParticles = 0)
        => /\ frame.points = 0
           /\ ~Issued(frame.calls, "drawParticles")

----------------------------------------------------------------------------
(* Properties of single drags *)

\* C14: a mouse move to the stored pointer position, with the left or the
\* right button and with the limit on or off, leaves the position, the focus,
\* the up vector and the cached matrix unchanged
StationaryMoveKeepsPose ==
    [][\A px \in Pixels, b \in DragButtons :
         (/\ scaledMouse(px[1], px[2]) = oldMousePosition
          /\ oldMousePosition' = scaledMouse(px[1], px[2])
          /\ MouseMoveEvent(px[1], px[2], b))
         => UNCHANGED <<position, focus, upVector, viewProjectionMatrix>>]_vars

\* the position one zoom from pixel (400,360) to pixel (400,0) takes the
\* default pose to when the limit is off: below the ground
zoomedBelowGround ==
    zoomedPosition(defaultPosition, defaultFocus,
                   ToScale(scaledMouse(400, 0).y - scaledMouse(400, 360).y),
                   FALSE)

\* two moves have been delivered and the pose is the one a single zoom
\* produces: the other move, to the stored pointer position, has changed
\* nothing; the camera is below the ground and the limit is on
StationaryBelowGround ==
    /\ moves = 2
    /\ limitCameraPosition
    /\ position = zoomedBelowGround
    /\ position.z < minimumHeight
    /\ oldMousePosition = scaledMouse(400, 0)

----------------------------------------------------------------------------
(* Independence of the subsystems *)

\* C15: what initializeGL makes of the skybox's and the particles' readiness
\* is fixed by their own programs, whatever the ground's texture loads
\* answered, and the ground is not ready when one of its textures failed;
\* later the ground stays not ready and the particles are ready iff their
\* program linked and a buffer was created
ReadinessOfOwnResources ==
    [][/\ glState = "constructed"
            => \A a \in SomeAssetOutcomes :
                 (a.glew /\ InitializeGL(a))
                 => /\ skyboxIsReady' <=> (a.skybox = "linked")
                    /\ particleProgramReady' <=> (a.particles = "linked")
                    /\ (~a.dirt \/ ~a.dirtN) => ~groundIsReady'
       /\ glState = "initialized"
            => /\ skyboxIsReady' <=> skyboxIsReady
               /\ particleProgramReady' <=> particleProgramReady
               /\ groundIsReady' <=> groundIsReady
               /\ particlesAreReady' <=> (particleProgramReady /\ particleVBO' # 0)
      ]_vars

\* the ground's diffuse texture alone has failed: the ground is not ready,
\* the skybox and the particles are
OnlyGroundNotReady ==
    /\ groundTexture = 0
    /\ groundTextureNormal # 0
    /\ groundProgramReady
    /\ ~groundIsReady
    /\ skyboxIsReady
    /\ particlesAreReady

\* the position after half a turn about the up vector (0,0,1)
halfTurned(p) == [p EXCEPT !.x = -p.x, !.y = -p.y]

\* a left-button move at (px, py) whose vertical displacement is zero and
\* whose horizontal displacement times rotationalFactor is at least 1
halfTurnDrag(px, py) ==
    /\ glState = "initialized"
    /\ scaledMouse(px, py).y = oldMousePosition.y
    /\ Abs((oldMousePosition.x - scaledMouse(px, py).x) * rotationalFactor)
         >= MouseScale
    /\ oldMousePosition' = scaledMouse(px, py)
    /\ MouseMoveEvent(px, py, "LeftButton")

tiltsPastPole(newMouse) ==
    LET c == cosTilt(upVector, position)
        dy == oldMousePosition.y - newMouse.y
    IN  /\ ~c.nan
        /\ \/ c.v > cosMinimumTilt /\ dy < 0
           \/ c.v < cosMaximumTilt /\ dy > 0

\* C18: with the limit off, an orbit drag past a pole is aborted (the pose
\* stays) exactly as with the limit on; any other orbit drag and any zoom
\* drag with the limit off ends unclamped
PoleGuardWithoutLimit ==
    [][\A px \in Pixels :
         LET newMouse == scaledMouse(px[1], px[2])
         IN  /\ (/\ glState = "initialized"
                 /\ newMouse # oldMousePosition
                 /\ oldMousePosition' = scaledMouse(px[1], px[2])
                 /\ MouseMoveEvent(px[1], px[2], "LeftButton"))
                => IF tiltsPastPole(newMouse)
                   THEN UNCHANGED <<position, viewProjectionMatrix>>
                   ELSE \/ limitCameraPosition
                        \/ position' = rotatedPosition(position, upVector,
                                                       rotateT(newMouse).x,
                                                       rotateT(newMouse).y,
                                                       FALSE)
             /\ (/\ glState = "initialized"
                 /\ newMouse # oldMousePosition
                 /\ ~limitCameraPosition
                 /\ oldMousePosition' = scaledMouse(px[1], px[2])
                 /\ MouseMoveEvent(px[1], px[2], "RightButton"))
                => position' = ScaleVec(Scale + ToScale(newMouse.y
                                                        - oldMousePosition.y),
                                        Sub(position, focus))]_vars

\* the position one orbit drag from pixel (400,300) to pixel (400,302) takes
\* the default pose to: closer to the pole than the minimum tilt
tiltedNearPole ==
    rotatedPosition(defaultPosition, defaultUp, 0,
                    ToScale(Clamp1((scaledMouse(400, 300).y
                                    - scaledMouse(400, 302).y)
                                   * rotationalFactor)),
                    TRUE)

\* the limit is off and of two moves, the second one to pixel (400,360), only
\* the first has tilted the camera: it is where that drag left it, closer to
\* the pole than the minimum tilt
AbortedNearPoleWithoutLimit ==
    /\ moves = 2
    /\ ~limitCameraPosition
    /\ position = tiltedNearPole
    /\ cosTilt(upVector, position).v > cosMinimumTilt
    /\ oldMousePosition = scaledMouse(400, 360)

----------------------------------------------------------------------------
(* Properties of setData and of scaledMouse *)

\* C19: when setData returns, the count is the length of the newly assigned
\* source, 0 if the source is null or empty
SetDataUpdatesCount ==
    [][\A p \in {"nullptr", "vector"} :
         SetData(p)
         => numberOfParticles'
              = IF p = "nullptr" THEN 0 ELSE Len(particleVector)]_vars

\* C20: the pointer position stored by the mouse handlers, the value of
\* scaledMouse at a pixel of the canvas, has both components in [-1, 1]
ScaledMouseNormalized ==
    /\ Abs(oldMousePosition.x) <= MouseScale
    /\ Abs(oldMousePosition.y) <= MouseScale

----------------------------------------------------------------------------
(* Properties of the startup *)

\* the required capability is absent: the driver does not support OpenGL 4.0,
\* or glewInit has failed
capabilityAbsent == ~hasOpenGL4_0 \/ glState = "glewFailed"

\* initializeGround, initializeSkybox and initializeParticle have left nothing
noSubsystemResource ==
    /\ groundVBO = 0 /\ groundTexture = 0 /\ groundTextureNormal = 0
    /\ groundProgram = 0 /\ ~groundProgramReady
    /\ skyboxVBO = 0 /\ skyboxIBO = 0 /\ skyboxTexture = 0
    /\ skyboxProgram = 0 /\ ~skyboxProgramReady
    /\ particleTexture = 0 /\ particleProgram = 0 /\ ~particleProgramReady

\* C21: when OpenGL 4.0 is not supported or glewInit fails, no subsystem
\* resource is ever initialized, every subsystem stays not ready, no frame
\* holds a subsystem draw, and initializeGL does not run again
AbsentCapabilityFatal ==
    [][/\ capabilityAbsent'
            => /\ noSubsystemResource'
               /\ ~groundIsReady' /\ ~skyboxIsReady' /\ ~particlesAreReady'
               /\ frame'.calls \in {<<>>, <<"glClear">>}
       /\ glState = "glewFailed" => glState' = "glewFailed"]_vars

----------------------------------------------------------------------------
(* Properties of the orbit *)

\* the position the yaw and the tilt of an orbit drag to newMouse lead to
\* before any clamp
orbited(newMouse) ==
    rotatedPosition(position, upVector, rotateT(newMouse).x,
                    rotateT(newMouse).y, FALSE)

\* the tilt at position p is below minTilt or above maxTilt, by more than the
\* rounding allowance
tiltOutOfRange(p) ==
    LET c == cosTilt(upVector, p)
    IN  /\ ~c.nan
        /\ \/ c.v > cosMinimumTilt + cosSlack
           \/ c.v < cosMaximumTilt - cosSlack

\* C22: an orbit drag that tilts the camera from a tilt within
\* [minTilt, maxTilt] to one outside is aborted: the position and the matrix
\* stay as they were
TiltPastLimitAborted ==
    [][\A px \in Pixels :
         LET newMouse == scaledMouse(px[1], px[2])
         IN  (/\ glState = "initialized"
              /\ newMouse # oldMousePosition
              /\ rotateT(newMouse).y # 0
              /\ ~tiltOutOfRange(position)
              /\ tiltOutOfRange(orbited(newMouse))
              /\ oldMousePosition' = newMouse
              /\ MouseMoveEvent(px[1], px[2], "LeftButton"))
             => UNCHANGED <<position, viewProjectionMatrix>>]_vars

\* two distances are equal up to the rounding of the fixed point arithmetic:
\* 0.005, and 0.005 more per unit of distance
sameDistance(d, e) == Abs(d - e) <= slack + RDiv(slack * d, Scale)

----------------------------------------------------------------------------
(* Properties of the initialization *)

\* the GPU objects alive: buffer names, texture names (the cube maps and the
\* Texture objects), ProgramObjects
liveHandles ==
    [buffers |-> gl.buffers,
     textures |-> gl.textures + gl.textureObjects,
     programs |-> gl.programObjects]

\* every handle of the three subsystems that initializeGL fills is valid
allHandlesValid ==
    /\ groundVBO # 0 /\ groundTexture # 0 /\ groundTextureNormal # 0
    /\ groundProgram # 0
    /\ skyboxVBO # 0 /\ skyboxIBO # 0 /\ skyboxTexture # 0 /\ skyboxProgram # 0
    /\ particleTexture # 0 /\ particleProgram # 0

\* C25: once every handle is valid, no step, a second initialization
\* included, creates a buffer, a texture or a program: the live handles after
\* two initializations are those after one
InitializationIdempotent ==
    [][(glState = "initialized" /\ allHandlesValid)
         => liveHandles' = liveHandles]_vars

\* C26: after initializeGL the handle of a texture is null or zero iff its
\* load failed (for the cube map: iff the load of one of its faces failed),
\* and whatever loads failed, the buffers and the programs of all three
\* subsystems are created and the outcome of each program's build is recorded
FailedTextureAloneNull ==
    [][glState = "constructed"
         => \A a \in SomeAssetOutcomes :
              (a.glew /\ InitializeGL(a))
              => /\ groundTexture' = 0 <=> ~a.dirt
                 /\ groundTextureNormal' = 0 <=> ~a.dirtN
                 /\ particleTexture' = 0 <=> ~a.particle
                 /\ skyboxTexture' = 0 <=> a.faces # Faces
                 /\ groundVBO' # 0 /\ groundProgram' # 0
                 /\ groundProgramReady' <=> a.ground = "linked"
                 /\ skyboxVBO' # 0 /\ skyboxIBO' # 0 /\ skyboxProgram' # 0
                 /\ skyboxProgramReady' <=> a.skybox = "linked"
                 /\ particleProgram' # 0
                 /\ particleProgramReady' <=> a.particles = "linked"]_vars

----------------------------------------------------------------------------
(* Frame properties of the toggles and of the mouse moves *)

\* the pose, the cached matrix, the handles, the readiness values and the
\* particle count
poseAndResources ==
    <<position, focus, upVector, viewProjectionMatrix, groundVars,
      skyboxVars, particleVars, gl>>

\* C27: each toggle changes its own flag and leaves the other two flags, the
\* pose, the matrix, every handle and readiness value and the particle count
\* unchanged; after initialization no step (drag, toggle, resize, updateData,
\* repaint) changes the up vector or the focus
TogglesChangeOwnFlag ==
    [][/\ \A b \in BOOLEAN :
            /\ ShowGroundRendering(b)
                 => /\ renderGround' = b
                    /\ UNCHANGED <<renderSkybox, limitCameraPosition,
                                   poseAndResources>>
            /\ ShowSkyboxRendering(b)
                 => /\ renderSkybox' = b
                    /\ UNCHANGED <<renderGround, limitCameraPosition,
                                   poseAndResources>>
            /\ LimitCameraPosition(b)
                 => /\ limitCameraPosition' = b
                    /\ UNCHANGED <<renderGround, renderSkybox,
                                   poseAndResources>>
       /\ glState = "initialized" => UNCHANGED <<upVector, focus>>]_vars

\* the limit has been switched off and, after a drag has taken the camera
\* below the minimum height, on again: the camera is still where the drag
\* left it
ToggledBelowGround ==
    /\ glState = "initialized"
    /\ renderGround /\ renderSkybox /\ limitCameraPosition
    /\ position.z < minimumHeight
    /\ upVector = defaultUp /\ focus = defaultFocus
    /\ viewProjectionMatrix
         = lookAtPerspective(position, focus, upVector, canvasSize)

\* C28: a mouse move with no button, with both buttons or with any buttons
\* other than the left alone or the right alone leaves the position, the
\* focus, the up vector and the matrix unchanged; every mouse move, aborted
\* or not, stores the normalized position of its pixel
MoveNeedsOneButton ==
    [][\A px \in Pixels, b \in Buttons :
         MouseMoveEvent(px[1], px[2], b)
         => /\ oldMousePosition' = scaledMouse(px[1], px[2])
            /\ b \notin DragButtons
                 => UNCHANGED <<position, focus, upVector,
                                viewProjectionMatrix>>]_vars

\* two moves have ended at pixel (402,302), away from the pixel of the press,
\* and the camera is still in the default pose: neither has been an orbit
\* or a zoom
MovedWithoutDrag ==
    /\ glState = "initialized"
    /\ moves = 2
    /\ oldMousePosition = scaledMouse(402, 302)
    /\ position = defaultPosition
    /\ viewProjectionMatrix
         = lookAtPerspective(defaultPosition, defaultFocus, defaultUp,
                             canvasSize)

----------------------------------------------------------------------------
(* Properties of the zoom *)

\* _position in Renderer::zoom just before the height clamp (before the end
\* of zoom when the limit is off)
zoomedBeforeHeightClamp(p, foc, t, limit) ==
    LET positionVector == Sub(p, foc)
        moved == ScaleVec(Scale + t, positionVector)
        far == IF ~moved.nan /\ Length(moved) > maximumDistance
               THEN ScaleVec(maximumDistance, Normalize(positionVector))
               ELSE moved
        near == IF ~far.nan /\ Length(far) < minimumDistance
                THEN ScaleVec(minimumDistance, Normalize(positionVector))
                ELSE far
    IN  IF limit THEN near ELSE moved

\* q is a strictly positive multiple of v, up to the rounding of the fixed
\* point arithmetic
positiveMultiple(q, v) ==
    /\ ~q.nan /\ ~v.nan
    /\ Dot(q, v) > 0
    /\ LET c == Cross(q, v)
           e == slack + RDiv(slack * Length(v), Scale)
       IN  Abs(c.x) <= e /\ Abs(c.y) <= e /\ Abs(c.z) <= e

\* C29: in every zoom drag the position before the height clamp is a strictly
\* positive multiple of the previous position relative to the focus, with the
\* limit on or off
ZoomKeepsSide ==
    [][\A px \in Pixels :
         LET t == ToScale(scaledMouse(px[1], px[2]).y - oldMousePosition.y)
             q == zoomedBeforeHeightClamp(position, focus, t,
                                          limitCameraPosition)
         IN  (/\ glState = "initialized"
              /\ scaledMouse(px[1], px[2]) # oldMousePosition
              /\ MouseMoveEvent(px[1], px[2], "RightButton"))
             => /\ position' = IF limitCameraPosition
                               THEN heightClamped(q) ELSE q
                /\ positiveMultiple(q, Sub(position, focus))]_vars

----------------------------------------------------------------------------
(* Properties of the particle draw *)

============================================================================
